---------------------------- MODULE Spec2Model ----------------------------
(***************************************************************************)
(* ASDTS configuration management (config.py).                             *)
(*                                                                         *)
(* Strings are sequences of one-character strings, so that str.lower(),    *)
(* float() and int() are computed character by character.  A float is a    *)
(* record [cls, num, scale]: cls "fin" stands for num / 10^scale (with no  *)
(* trailing zero in the fraction), cls "inf" for +/-infinity (num the      *)
(* sign), cls "nan" for not-a-number.  Optional values (a name that may be *)
(* unbound, an exception that may be pending) are sequences of length 0    *)
(* or 1.                                                                   *)
(***************************************************************************)
EXTENDS Integers, Sequences, FiniteSets, TLC

\* ------------------------------------------------------------- bounds
\* Number of variables set in the process environment at start.
MaxSet == 1
\* Number of os.environ changes made after the module is imported.
MaxLateEnvOps == 1
\* Number of ASDTSConfig() calls made by consumers after the import.
MaxCalls == 1
\* Number of modifications consumers make to a to_dict() snapshot.
MaxMutations == 1

\* ------------------------------------------------------------ strings
UpperChars == <<"A","B","C","D","E","F","G","H","I","J","K","L","M",
                "N","O","P","Q","R","S","T","U","V","W","X","Y","Z">>
LowerChars == <<"a","b","c","d","e","f","g","h","i","j","k","l","m",
                "n","o","p","q","r","s","t","u","v","w","x","y","z">>
DigitChars == <<"0","1","2","3","4","5","6","7","8","9">>

IsUpper(c) == \E i \in DOMAIN UpperChars : UpperChars[i] = c
IsDigit(c) == \E i \in DOMAIN DigitChars : DigitChars[i] = c
IsSpace(c) == c \in {" ", "\t", "\n"}
DigitVal(c) == (CHOOSE i \in DOMAIN DigitChars : DigitChars[i] = c) - 1

\* str.lower()
LowerChar(c) ==
    IF IsUpper(c)
    THEN LowerChars[CHOOSE i \in DOMAIN UpperChars : UpperChars[i] = c]
    ELSE c
Lower(s) == [i \in DOMAIN s |-> LowerChar(s[i])]

\* str.strip(), applied by float() and int() to their argument
RECURSIVE LStrip(_)
LStrip(s) == IF s # <<>> /\ IsSpace(Head(s)) THEN LStrip(Tail(s)) ELSE s
RECURSIVE RStrip(_)
RStrip(s) ==
    IF s # <<>> /\ IsSpace(s[Len(s)])
    THEN RStrip(SubSeq(s, 1, Len(s) - 1))
    ELSE s
Strip(s) == RStrip(LStrip(s))

AllDigits(s) == \A i \in DOMAIN s : IsDigit(s[i])
RECURSIVE DigitsValue(_)
DigitsValue(s) ==
    IF s = <<>> THEN 0
    ELSE 10 * DigitsValue(SubSeq(s, 1, Len(s) - 1)) + DigitVal(s[Len(s)])

\* ------------------------------------------------------------- floats
Fin(n, k) == [cls |-> "fin", num |-> n, scale |-> k]
Inf(sign) == [cls |-> "inf", num |-> sign, scale |-> 0]
NaN == [cls |-> "nan", num |-> 0, scale |-> 0]

RECURSIVE Normalize(_)
Normalize(f) ==
    IF f.cls = "fin" /\ f.scale > 0 /\ f.num % 10 = 0
    THEN Normalize(Fin(f.num \div 10, f.scale - 1))
    ELSE f

\* the comparison  x <= 0  on floats: false for nan
LeqZero(f) == f.cls # "nan" /\ f.num <= 0
\* the comparison  x > 0  on floats: false for nan
GtZero(f) == f.cls # "nan" /\ f.num > 0

Parsed(v) == [ok |-> TRUE, val |-> v]
ParseFailed == [ok |-> FALSE, val |-> 0]

SignOf(s) == IF s # <<>> /\ Head(s) = "-" THEN -1 ELSE 1
Unsigned(s) == IF s # <<>> /\ Head(s) \in {"+", "-"} THEN Tail(s) ELSE s
PointAt(s) == {i \in DOMAIN s : s[i] = "."}

\* float(s) for the forms  [ws] [sign] (nan | inf | infinity | digits
\* [. digits] | . digits) [ws];  exponents and digit-group underscores are
\* outside the alphabet of the inputs considered.
ParseFloat(s) ==
    LET t == Strip(s)
        sign == SignOf(t)
        u == Unsigned(t)
        l == Lower(u)
    IN  IF l = <<"n","a","n">> THEN Parsed(NaN)
        ELSE IF l = <<"i","n","f">>
                \/ l = <<"i","n","f","i","n","i","t","y">> THEN Parsed(Inf(sign))
        ELSE IF Cardinality(PointAt(u)) > 1 THEN ParseFailed
        ELSE LET p == IF PointAt(u) = {} THEN Len(u) + 1
                      ELSE CHOOSE i \in PointAt(u) : TRUE
                 whole == SubSeq(u, 1, p - 1)
                 frac == SubSeq(u, p + 1, Len(u))
             IN  IF AllDigits(whole) /\ AllDigits(frac)
                    /\ Len(whole) + Len(frac) > 0
                 THEN Parsed(Normalize(Fin(sign * DigitsValue(whole \o frac),
                                           Len(frac))))
                 ELSE ParseFailed

\* int(s) for the forms  [ws] [sign] digits [ws]
ParseInt(s) ==
    LET t == Strip(s)
        u == Unsigned(t)
    IN  IF u # <<>> /\ AllDigits(u)
        THEN Parsed(SignOf(t) * DigitsValue(u))
        ELSE ParseFailed

\* -------------------------------------------------------- environment
StrVars == {"FIREBASE_CREDENTIAL_PATH", "FIREBASE_PROJECT_ID",
            "TRADING_EXCHANGE", "DEFAULT_SYMBOL", "LOG_LEVEL", "LOG_FILE"}
BoolVars == {"TRADING_TESTNET"}
FloatVars == {"MAX_POSITION_SIZE", "STOP_LOSS_PCT", "TAKE_PROFIT_PCT",
              "SENTIMENT_THRESHOLD", "VADER_THRESHOLD"}
IntVars == {"SENTIMENT_UPDATE_INTERVAL", "LOG_MAX_SIZE_MB", "LOG_BACKUP_COUNT"}
EnvVars == StrVars \cup BoolVars \cup FloatVars \cup IntVars

\* Values given to the variables: the empty string, text that is no
\* number, zero, a negative number, nan, and valid values that differ
\* from the defaults.
StrInputs == {<<>>, <<"x">>}
BoolInputs == {<<>>, <<"T","R","U","E">>, <<"F","a","l","s","e">>}
FloatInputs == {<<>>, <<"x">>, <<"0">>, <<"-","1">>, <<"n","a","n">>,
                <<"0",".","5">>}
IntInputs == {<<>>, <<"x">>, <<"6","0">>, <<"0",".","5">>}
AllInputs == StrInputs \cup BoolInputs \cup FloatInputs \cup IntInputs
InputsFor(v) ==
    IF v \in StrVars THEN StrInputs
    ELSE IF v \in BoolVars THEN BoolInputs
    ELSE IF v \in FloatVars THEN FloatInputs
    ELSE IntInputs

\* The environments with at most n variables set.
Environments(n) ==
    UNION {{e \in [S -> AllInputs] : \A v \in S : e[v] \in InputsFor(v)} :
           S \in {T \in SUBSET EnvVars : Cardinality(T) <= n}}

NoEnv == [v \in {} |-> <<>>]
\* The .env file found by load_dotenv(): none, or one that sets two variables.
DotenvFiles ==
    {NoEnv,
     [v \in {"TRADING_EXCHANGE", "STOP_LOSS_PCT"} |->
        IF v = "TRADING_EXCHANGE" THEN <<"x">> ELSE <<"0",".","5">>]}

DefaultCredentialPath ==
    <<"f","i","r","e","b","a","s","e","-","c","r","e","d","e","n","t","i",
      "a","l","s",".","j","s","o","n">>
\* The paths whose existence varies; every other path does not exist.
CandidatePaths == {DefaultCredentialPath, <<"x">>}

\* os.getenv(key, default)
Getenv(e, key, default) == IF key \in DOMAIN e THEN e[key] ELSE default

\* os.environ[key] = value  and  del os.environ[key]
EnvSet(e, key, value) ==
    [v \in DOMAIN e \cup {key} |-> IF v = key THEN value ELSE e[v]]
EnvDel(e, key) == [v \in DOMAIN e \ {key} |-> e[v]]

\* load_dotenv(): the file's entries are added to os.environ; a variable
\* that is already set is not overridden.
LoadDotenvInto(e, file) ==
    [v \in DOMAIN e \cup DOMAIN file |-> IF v \in DOMAIN e THEN e[v] ELSE file[v]]

\* os.path.exists(path)
PathExists(fsys, path) == path \in fsys

\* --------------------------------------------------------- exceptions
ValueError(words, raw) == [type |-> "ValueError", words |-> words, raw |-> raw]
\* float(s) failing: "could not convert string to float: '<s>'"
FloatError(s) ==
    ValueError(<<"could", "not", "convert", "string", "to", "float:">>, s)
\* int(s) failing: "invalid literal for int() with base 10: '<s>'"
IntError(s) ==
    ValueError(<<"invalid", "literal", "for", "int()", "with", "base", "10:">>, s)

\* ------------------------------------------------- class definitions
\* One attribute of a class body: its name and the outcome of evaluating
\* its default expression.
StrAttr(name, s) == [name |-> name, ok |-> TRUE, val |-> s, err |-> <<>>]
BoolAttr(name, b) == [name |-> name, ok |-> TRUE, val |-> b, err |-> <<>>]
FloatAttr(name, s) ==
    LET p == ParseFloat(s)
    IN  [name |-> name, ok |-> p.ok, val |-> p.val,
         err |-> IF p.ok THEN <<>> ELSE <<FloatError(s)>>]
IntAttr(name, s) ==
    LET p == ParseInt(s)
    IN  [name |-> name, ok |-> p.ok, val |-> p.val,
         err |-> IF p.ok THEN <<>> ELSE <<IntError(s)>>]

\* The class bodies, attribute by attribute in source order, evaluated
\* with os.environ = e.
FirebaseConfig(e) ==
    << StrAttr("credential_path",
               Getenv(e, "FIREBASE_CREDENTIAL_PATH", DefaultCredentialPath)),
       StrAttr("project_id",
               Getenv(e, "FIREBASE_PROJECT_ID",
                      <<"a","s","d","t","s","-","s","y","s","t","e","m">>)) >>

TradingConfig(e) ==
    << StrAttr("exchange",
               Getenv(e, "TRADING_EXCHANGE", <<"b","i","n","a","n","c","e">>)),
       BoolAttr("testnet",
                Lower(Getenv(e, "TRADING_TESTNET", <<"T","r","u","e">>))
                    = <<"t","r","u","e">>),
       StrAttr("default_symbol",
               Getenv(e, "DEFAULT_SYMBOL", <<"B","T","C","/","U","S","D","T">>)),
       FloatAttr("max_position_size",
                 Getenv(e, "MAX_POSITION_SIZE", <<"0",".","1">>)),
       FloatAttr("stop_loss_pct",
                 Getenv(e, "STOP_LOSS_PCT", <<"0",".","0","2">>)),
       FloatAttr("take_profit_pct",
                 Getenv(e, "TAKE_PROFIT_PCT", <<"0",".","0","3">>)),
       FloatAttr("sentiment_threshold",
                 Getenv(e, "SENTIMENT_THRESHOLD", <<"0",".","3">>)) >>

SentimentConfig(e) ==
    << IntAttr("update_interval",
               Getenv(e, "SENTIMENT_UPDATE_INTERVAL", <<"3","0","0">>)),
       FloatAttr("vader_threshold",
                 Getenv(e, "VADER_THRESHOLD", <<"0",".","0","5">>)) >>

LoggingConfig(e) ==
    << StrAttr("level", Getenv(e, "LOG_LEVEL", <<"I","N","F","O">>)),
       StrAttr("file_path",
               Getenv(e, "LOG_FILE", <<"a","s","d","t","s",".","l","o","g">>)),
       IntAttr("max_size_mb", Getenv(e, "LOG_MAX_SIZE_MB", <<"1","0">>)),
       IntAttr("backup_count", Getenv(e, "LOG_BACKUP_COUNT", <<"5">>)) >>

\* The attributes of a class whose body was evaluated without an exception.
AttrsOf(body) ==
    [n \in {body[i].name : i \in DOMAIN body} |->
        body[CHOOSE i \in DOMAIN body : body[i].name = n].val]

\* Executing the four class statements in order: the first default
\* expression that raises ends the execution with its exception.
DefineAll(e) ==
    LET body == FirebaseConfig(e) \o TradingConfig(e) \o SentimentConfig(e)
                    \o LoggingConfig(e)
        bad == {i \in DOMAIN body : ~body[i].ok}
    IN  IF bad = {}
        THEN [ok |-> TRUE,
              classes |-> [firebase |-> AttrsOf(FirebaseConfig(e)),
                           trading |-> AttrsOf(TradingConfig(e)),
                           sentiment |-> AttrsOf(SentimentConfig(e)),
                           logging |-> AttrsOf(LoggingConfig(e))],
              err |-> <<>>]
        ELSE [ok |-> FALSE, classes |-> <<>>,
              err |-> body[CHOOSE i \in bad : \A j \in bad : i <= j].err]

\* ----------------------------------------------------------- instances
DefaultCollections ==
    [k \in {"trades", "sentiment", "strategies", "system_logs", "market_data"} |->
        CASE k = "trades" -> <<"t","r","a","d","e","s">>
          [] k = "sentiment" ->
                <<"s","e","n","t","i","m","e","n","t","_","d","a","t","a">>
          [] k = "strategies" ->
                <<"t","r","a","d","i","n","g","_","s","t","r","a","t","e","g",
                  "i","e","s">>
          [] k = "system_logs" -> <<"s","y","s","t","e","m","_","l","o","g","s">>
          [] k = "market_data" -> <<"m","a","r","k","e","t","_","d","a","t","a">>]
DefaultSources ==
    << <<"n","e","w","s">>, <<"t","w","i","t","t","e","r">>,
       <<"r","e","d","d","i","t">> >>

\* FirebaseConfig(): the fields take the class attributes; collections is
\* None, so __post_init__ binds it to a new dict, held at address cid.
NewFirebaseConfig(attrs, cid) ==
    [credential_path |-> attrs.credential_path,
     project_id |-> attrs.project_id,
     collections |-> cid]
\* SentimentConfig(): sources is None, so __post_init__ binds it to a new
\* list, held at address sid.
NewSentimentConfig(attrs, sid) ==
    [sources |-> sid,
     update_interval |-> attrs.update_interval,
     vader_threshold |-> attrs.vader_threshold]

\* ASDTSConfig.__init__, before the validation
ASDTSConfigInit(classes, cid, sid) ==
    [firebase |-> NewFirebaseConfig(classes.firebase, cid),
     trading |-> classes.trading,
     sentiment |-> NewSentimentConfig(classes.sentiment, sid),
     logging |-> classes.logging]

\* _validate_config changed to treat the missing credential file as fatal.
ValidateConfigMissingFileFatal(self, fsys) ==
    IF ~PathExists(fsys, self.firebase.credential_path)
    THEN [warnings |-> <<>>,
          err |-> << [type |-> "FileNotFoundError",
                      words |-> <<"Firebase", "credential", "file", "not", "found:">>,
                      raw |-> self.firebase.credential_path] >>]
    ELSE [warnings |-> <<>>,
          err |->
            IF LeqZero(self.trading.max_position_size)
            THEN << ValueError(<<"MAX_POSITION_SIZE", "must", "be", "positive">>, <<>>) >>
            ELSE IF LeqZero(self.trading.stop_loss_pct)
            THEN << ValueError(<<"STOP_LOSS_PCT", "must", "be", "positive">>, <<>>) >>
            ELSE <<>>]

\* ASDTSConfig._validate_config: the warnings logged and the exception
\* raised, if any.
ValidateConfig(self, fsys) ==
    [warnings |->
        IF ~PathExists(fsys, self.firebase.credential_path)
        THEN << self.firebase.credential_path >>
        ELSE <<>>,
     err |->
        IF LeqZero(self.trading.max_position_size)
        THEN << ValueError(<<"MAX_POSITION_SIZE", "must", "be", "positive">>, <<>>) >>
        ELSE IF LeqZero(self.trading.stop_loss_pct)
        THEN << ValueError(<<"STOP_LOSS_PCT", "must", "be", "positive">>, <<>>) >>
        ELSE <<>>]

\* to_dict changed to export the stop-loss fraction with the trading group.
ToDictWithStopLoss(self) ==
    [firebase |-> [project_id |-> self.firebase.project_id,
                   collections |-> self.firebase.collections],
     trading |-> [exchange |-> self.trading.exchange,
                  testnet |-> self.trading.testnet,
                  default_symbol |-> self.trading.default_symbol,
                  stop_loss_pct |-> self.trading.stop_loss_pct],
     sentiment |-> [sources |-> self.sentiment.sources,
                    update_interval |-> self.sentiment.update_interval]]

\* ASDTSConfig.to_dict: collections and sources are the addresses of the
\* object's own dict and list, not copies.
ToDict(self) ==
    [firebase |-> [project_id |-> self.firebase.project_id,
                   collections |-> self.firebase.collections],
     trading |-> [exchange |-> self.trading.exchange,
                  testnet |-> self.trading.testnet,
                  default_symbol |-> self.trading.default_symbol],
     sentiment |-> [sources |-> self.sentiment.sources,
                    update_interval |-> self.sentiment.update_interval]]

\* dict[key] = value  and  del dict[key]
DictPut(d, key, value) ==
    [k \in DOMAIN d \cup {key} |-> IF k = key THEN value ELSE d[k]]
DictDel(d, key) == [k \in DOMAIN d \ {key} |-> d[k]]

\* -------------------------------------------------------------- state
VARIABLES
    env,          \* os.environ
    dotenvFile,   \* the entries of the .env file
    fs,           \* the paths that exist
    pc,           \* how far the import of the module has come
    classes,      \* the class attributes (the dataclass defaults), once defined
    config,       \* the module's global  config, once bound
    inst,         \* the object the latest ASDTSConfig() call of a consumer returned
    dicts,        \* the dict objects, by address
    lists,        \* the list objects, by address
    snapshot,     \* the dict the latest to_dict() call returned
    observed,     \* the group a consumer read last
    warnings,     \* the warnings logged
    error,        \* the exception that ended the import, if one did
    configEnv,    \* os.environ when  config  was constructed
    instEnv,      \* os.environ when  inst  was constructed
    constructions,\* how often ASDTSConfig.__init__ has run
    lateOps,      \* how many changes of os.environ followed the import
    mutations     \* how many modifications of a snapshot were made

vars == <<env, dotenvFile, fs, pc, classes, config, inst, dicts, lists,
          snapshot, observed, warnings, error, configEnv, instEnv,
          constructions, lateOps, mutations>>

Init ==
    /\ env \in Environments(MaxSet)
    /\ dotenvFile \in DotenvFiles
    /\ fs \in {{}, CandidatePaths}
    /\ pc = "start"
    /\ classes = <<>>
    /\ config = <<>>
    /\ inst = <<>>
    /\ dicts = <<>>
    /\ lists = <<>>
    /\ snapshot = <<>>
    /\ observed = <<>>
    /\ warnings = <<>>
    /\ error = <<>>
    /\ configEnv = <<>>
    /\ instEnv = <<>>
    /\ constructions = 0
    /\ lateOps = 0
    /\ mutations = 0

\* line 11: load_dotenv()
LoadDotenv ==
    /\ pc = "start"
    /\ env' = LoadDotenvInto(env, dotenvFile)
    /\ pc' = "dotenv_loaded"
    /\ UNCHANGED <<dotenvFile, fs, classes, config, inst, dicts, lists,
                   snapshot, observed, warnings, error, configEnv, instEnv,
                   constructions, lateOps, mutations>>

\* lines 13-58: the class statements; the defaults are evaluated here, once
DefineClasses ==
    /\ pc = "dotenv_loaded"
    /\ LET r == DefineAll(env)
       IN  IF r.ok
           THEN /\ classes' = << r.classes >>
                /\ pc' = "classes_defined"
                /\ error' = error
           ELSE /\ classes' = classes
                /\ pc' = "import_failed"
                /\ error' = r.err
    /\ UNCHANGED <<env, dotenvFile, fs, config, inst, dicts, lists, snapshot,
                   observed, warnings, configEnv, instEnv, constructions,
                   lateOps, mutations>>

\* line 102: config = ASDTSConfig()
CreateGlobalConfig ==
    /\ pc = "classes_defined"
    /\ LET cid == Len(dicts) + 1
           sid == Len(lists) + 1
           self == ASDTSConfigInit(classes[1], cid, sid)
           v == ValidateConfig(self, fs)
       IN  /\ dicts' = Append(dicts, DefaultCollections)
           /\ lists' = Append(lists, DefaultSources)
           /\ warnings' = warnings \o v.warnings
           /\ constructions' = constructions + 1
           /\ IF v.err = <<>>
              THEN /\ config' = << self >>
                   /\ configEnv' = << env >>
                   /\ pc' = "ready"
                   /\ error' = error
              ELSE /\ config' = config
                   /\ configEnv' = configEnv
                   /\ pc' = "import_failed"
                   /\ error' = v.err
    /\ UNCHANGED <<env, dotenvFile, fs, classes, inst, snapshot, observed,
                   instEnv, lateOps, mutations>>

\* a consumer calls ASDTSConfig()
Construct ==
    /\ pc = "ready"
    /\ constructions < 1 + MaxCalls
    /\ LET cid == Len(dicts) + 1
           sid == Len(lists) + 1
           self == ASDTSConfigInit(classes[1], cid, sid)
           v == ValidateConfig(self, fs)
       IN  /\ dicts' = Append(dicts, DefaultCollections)
           /\ lists' = Append(lists, DefaultSources)
           /\ warnings' = warnings \o v.warnings
           /\ constructions' = constructions + 1
           /\ IF v.err = <<>>
              THEN /\ inst' = << self >>
                   /\ instEnv' = << env >>
                   /\ error' = <<>>
              ELSE /\ inst' = inst
                   /\ instEnv' = instEnv
                   /\ error' = v.err
    /\ UNCHANGED <<env, dotenvFile, fs, pc, classes, config, snapshot,
                   observed, configEnv, lateOps, mutations>>

\* os.environ[key] = value, after the import
Setenv(key, value) ==
    /\ pc = "ready"
    /\ lateOps < MaxLateEnvOps
    /\ env' = EnvSet(env, key, value)
    /\ lateOps' = lateOps + 1
    /\ UNCHANGED <<dotenvFile, fs, pc, classes, config, inst, dicts, lists,
                   snapshot, observed, warnings, error, configEnv, instEnv,
                   constructions, mutations>>

\* del os.environ[key], after the import
Unsetenv(key) ==
    /\ pc = "ready"
    /\ lateOps < MaxLateEnvOps
    /\ key \in DOMAIN env
    /\ env' = EnvDel(env, key)
    /\ lateOps' = lateOps + 1
    /\ UNCHANGED <<dotenvFile, fs, pc, classes, config, inst, dicts, lists,
                   snapshot, observed, warnings, error, configEnv, instEnv,
                   constructions, mutations>>

\* a file appears at, or disappears from, one of the candidate paths
CreateFile(path) ==
    /\ pc = "ready"
    /\ path \notin fs
    /\ fs' = fs \cup {path}
    /\ UNCHANGED <<env, dotenvFile, pc, classes, config, inst, dicts, lists,
                   snapshot, observed, warnings, error, configEnv, instEnv,
                   constructions, lateOps, mutations>>

RemoveFile(path) ==
    /\ pc = "ready"
    /\ path \in fs
    /\ fs' = fs \ {path}
    /\ UNCHANGED <<env, dotenvFile, pc, classes, config, inst, dicts, lists,
                   snapshot, observed, warnings, error, configEnv, instEnv,
                   constructions, lateOps, mutations>>

\* a consumer calls config.to_dict()
CallToDict ==
    /\ pc = "ready"
    /\ snapshot' = << ToDict(config[1]) >>
    /\ UNCHANGED <<env, dotenvFile, fs, pc, classes, config, inst, dicts,
                   lists, observed, warnings, error, configEnv, instEnv,
                   constructions, lateOps, mutations>>

\* a consumer reads one of the four groups of config
ReadGroup(g) ==
    /\ pc = "ready"
    /\ observed' = << [group |-> g, value |-> config[1][g]] >>
    /\ UNCHANGED <<env, dotenvFile, fs, pc, classes, config, inst, dicts,
                   lists, snapshot, warnings, error, configEnv, instEnv,
                   constructions, lateOps, mutations>>

\* The keys and values consumers write into a snapshot.
MutationKeys == {"trades", "extra"}
MutationValue == <<"x">>

\* snapshot["firebase"]["collections"][key] = value
SnapshotSetCollection(key, value) ==
    /\ snapshot # <<>>
    /\ mutations < MaxMutations
    /\ dicts' = [dicts EXCEPT ![snapshot[1].firebase.collections] =
                    DictPut(@, key, value)]
    /\ mutations' = mutations + 1
    /\ UNCHANGED <<env, dotenvFile, fs, pc, classes, config, inst, lists,
                   snapshot, observed, warnings, error, configEnv, instEnv,
                   constructions, lateOps>>

\* del snapshot["firebase"]["collections"][key]
SnapshotDelCollection(key) ==
    /\ snapshot # <<>>
    /\ mutations < MaxMutations
    /\ key \in DOMAIN dicts[snapshot[1].firebase.collections]
    /\ dicts' = [dicts EXCEPT ![snapshot[1].firebase.collections] =
                    DictDel(@, key)]
    /\ mutations' = mutations + 1
    /\ UNCHANGED <<env, dotenvFile, fs, pc, classes, config, inst, lists,
                   snapshot, observed, warnings, error, configEnv, instEnv,
                   constructions, lateOps>>

\* snapshot["sentiment"]["sources"].append(value)
SnapshotAppendSource(value) ==
    /\ snapshot # <<>>
    /\ mutations < MaxMutations
    /\ lists' = [lists EXCEPT ![snapshot[1].sentiment.sources] =
                    Append(@, value)]
    /\ mutations' = mutations + 1
    /\ UNCHANGED <<env, dotenvFile, fs, pc, classes, config, inst, dicts,
                   snapshot, observed, warnings, error, configEnv, instEnv,
                   constructions, lateOps>>

\* snapshot["trading"]["exchange"] = value
SnapshotSetExchange(value) ==
    /\ snapshot # <<>>
    /\ mutations < MaxMutations
    /\ snapshot' = [snapshot EXCEPT ![1].trading.exchange = value]
    /\ mutations' = mutations + 1
    /\ UNCHANGED <<env, dotenvFile, fs, pc, classes, config, inst, dicts,
                   lists, observed, warnings, error, configEnv, instEnv,
                   constructions, lateOps>>

\* ----------------------------------------------------- specifications
\* Loading: the import of the module, then consumers that change the
\* environment and the file system and construct further objects.
Next ==
    \/ LoadDotenv
    \/ DefineClasses
    \/ CreateGlobalConfig
    \/ \E key \in EnvVars : \E value \in InputsFor(key) : Setenv(key, value)
    \/ \E key \in EnvVars : Unsetenv(key)
    \/ \E path \in CandidatePaths : CreateFile(path)
    \/ \E path \in CandidatePaths : RemoveFile(path)
    \/ Construct
Spec == Init /\ [][Next]_vars

\* Validation: the import of the module, then consumers that construct
\* further objects while files appear and disappear.
NextValidate ==
    \/ LoadDotenv
    \/ DefineClasses
    \/ CreateGlobalConfig
    \/ \E path \in CandidatePaths : CreateFile(path)
    \/ \E path \in CandidatePaths : RemoveFile(path)
    \/ Construct
SpecValidate == Init /\ [][NextValidate]_vars

\* Export: the import of the module, then consumers that read the global
\* config, take snapshots of it and modify the snapshots.
NextExport ==
    \/ LoadDotenv
    \/ DefineClasses
    \/ CreateGlobalConfig
    \/ CallToDict
    \/ \E g \in {"firebase", "trading", "sentiment", "logging"} : ReadGroup(g)
    \/ \E key \in MutationKeys : SnapshotSetCollection(key, MutationValue)
    \/ \E key \in MutationKeys : SnapshotDelCollection(key)
    \/ SnapshotAppendSource(MutationValue)
    \/ SnapshotSetExchange(MutationValue)
SpecExport == Init /\ [][NextExport]_vars

\* ------------------------------------------------------------- claims
\* The environment variable behind each field, and the field's place.
GroupOf(v) ==
    IF v \in {"FIREBASE_CREDENTIAL_PATH", "FIREBASE_PROJECT_ID"} THEN "firebase"
    ELSE IF v \in {"SENTIMENT_UPDATE_INTERVAL", "VADER_THRESHOLD"} THEN "sentiment"
    ELSE IF v \in {"LOG_LEVEL", "LOG_FILE", "LOG_MAX_SIZE_MB", "LOG_BACKUP_COUNT"}
    THEN "logging"
    ELSE "trading"
FieldOf(v) ==
    CASE v = "FIREBASE_CREDENTIAL_PATH" -> "credential_path"
      [] v = "FIREBASE_PROJECT_ID" -> "project_id"
      [] v = "TRADING_EXCHANGE" -> "exchange"
      [] v = "TRADING_TESTNET" -> "testnet"
      [] v = "DEFAULT_SYMBOL" -> "default_symbol"
      [] v = "MAX_POSITION_SIZE" -> "max_position_size"
      [] v = "STOP_LOSS_PCT" -> "stop_loss_pct"
      [] v = "TAKE_PROFIT_PCT" -> "take_profit_pct"
      [] v = "SENTIMENT_THRESHOLD" -> "sentiment_threshold"
      [] v = "SENTIMENT_UPDATE_INTERVAL" -> "update_interval"
      [] v = "VADER_THRESHOLD" -> "vader_threshold"
      [] v = "LOG_LEVEL" -> "level"
      [] v = "LOG_FILE" -> "file_path"
      [] v = "LOG_MAX_SIZE_MB" -> "max_size_mb"
      [] v = "LOG_BACKUP_COUNT" -> "backup_count"
Field(obj, v) == obj[GroupOf(v)][FieldOf(v)]

\* The table of defaults of the specification.
DocumentedDefault(v) ==
    CASE v = "FIREBASE_CREDENTIAL_PATH" -> DefaultCredentialPath
      [] v = "FIREBASE_PROJECT_ID" ->
            <<"a","s","d","t","s","-","s","y","s","t","e","m">>
      [] v = "TRADING_EXCHANGE" -> <<"b","i","n","a","n","c","e">>
      [] v = "TRADING_TESTNET" -> TRUE
      [] v = "DEFAULT_SYMBOL" -> <<"B","T","C","/","U","S","D","T">>
      [] v = "MAX_POSITION_SIZE" -> Fin(1, 1)
      [] v = "STOP_LOSS_PCT" -> Fin(2, 2)
      [] v = "TAKE_PROFIT_PCT" -> Fin(3, 2)
      [] v = "SENTIMENT_THRESHOLD" -> Fin(3, 1)
      [] v = "SENTIMENT_UPDATE_INTERVAL" -> 300
      [] v = "VADER_THRESHOLD" -> Fin(5, 2)
      [] v = "LOG_LEVEL" -> <<"I","N","F","O">>
      [] v = "LOG_FILE" -> <<"a","s","d","t","s",".","l","o","g">>
      [] v = "LOG_MAX_SIZE_MB" -> 10
      [] v = "LOG_BACKUP_COUNT" -> 5

\* A value of a numeric variable that does not parse as its type.
Malformed(v, s) ==
    \/ v \in FloatVars /\ ~ParseFloat(s).ok
    \/ v \in IntVars /\ ~ParseInt(s).ok
\* The value a well-formed setting of variable v stands for.
ParsedValue(v, s) ==
    IF v \in StrVars THEN s
    ELSE IF v \in BoolVars THEN Lower(s) = <<"t","r","u","e">>
    ELSE IF v \in FloatVars THEN ParseFloat(s).val
    ELSE ParseInt(s).val

\* The message of exception e holds the word w.
Names(e, w) == \E i \in DOMAIN e.words : e.words[i] = w

\* The settings objects consumers can reach, each with os.environ as it
\* was when the object was constructed.
Built ==
    {[obj |-> config[i], env |-> configEnv[i]] : i \in DOMAIN config}
        \cup {[obj |-> inst[i], env |-> instEnv[i]] : i \in DOMAIN inst}

\* C1: every object constructed while a variable is unset holds the
\* documented default in that variable's field, and the import succeeds
\* when no variable is set.
C1_DefaultWhenUnset ==
    /\ \A b \in Built : \A v \in EnvVars \ DOMAIN b.env :
            Field(b.obj, v) = DocumentedDefault(v)
    /\ pc = "import_failed" => DOMAIN env # {}

\* C2: every object constructed while a variable is set to the empty
\* string holds the documented default in that variable's field, and the
\* import does not fail when every variable is unset or empty.
C2_DefaultWhenEmpty ==
    /\ \A b \in Built : \A v \in DOMAIN b.env :
            b.env[v] = <<>> => Field(b.obj, v) = DocumentedDefault(v)
    /\ pc = "import_failed" => \E v \in DOMAIN env : env[v] # <<>>

\* The fields among max position size and stop-loss that are <= 0.
Offending(c) ==
    {f \in {"MAX_POSITION_SIZE", "STOP_LOSS_PCT"} :
        LeqZero(c.trading[FieldOf(f)])}

\* C3: a max position size or stop-loss fraction <= 0 ends the
\* construction with an exception naming an offending field and no
\* object becomes available; every object that is available has max
\* position size > 0 and stop-loss fraction > 0.
C3_ValidationContract ==
    /\ (classes # <<>> /\ pc # "classes_defined" /\ Offending(classes[1]) # {})
         => /\ pc = "import_failed"
            /\ config = <<>> /\ inst = <<>>
            /\ error # <<>>
            /\ \E f \in Offending(classes[1]) : Names(error[1], f)
    /\ \A b \in Built :
         /\ GtZero(b.obj.trading.max_position_size)
         /\ GtZero(b.obj.trading.stop_loss_pct)

\* C4: a numeric variable whose value does not parse ends the import with
\* an exception that names that variable, and no object is produced.
C4_ParseErrorNamesVariable ==
    (pc \notin {"start", "dotenv_loaded"}
        /\ \E v \in DOMAIN env : Malformed(v, env[v]))
      => /\ pc = "import_failed"
         /\ config = <<>> /\ inst = <<>> /\ classes = <<>>
         /\ error # <<>>
         /\ \E v \in DOMAIN env : Malformed(v, env[v]) /\ Names(error[1], v)

\* C5: every object constructed while a variable is set to a valid value
\* holds the parsed value in that variable's field; testnet is true
\* exactly when TRADING_TESTNET equals "true" ignoring case.
C5_ValidValueIsParsed ==
    \A b \in Built : \A v \in DOMAIN b.env :
        ~Malformed(v, b.env[v]) => Field(b.obj, v) = ParsedValue(v, b.env[v])

FiveKeys == {"trades", "sentiment", "strategies", "system_logs", "market_data"}

\* C6: in every state, the collections mapping of every constructed
\* object has exactly the five fixed keys, each with a non-empty value.
C6_FiveKeysAlways ==
    \A b \in Built :
        LET d == dicts[b.obj.firebase.collections]
        IN  DOMAIN d = FiveKeys /\ \A k \in DOMAIN d : d[k] # <<>>

\* C7: a construction whose credential file is missing logs one warning
\* and otherwise ends exactly as it would with the file present: with the
\* same exception, or with the same object bound.
C7_MissingFileOnlyWarns ==
    [][constructions' # constructions =>
         LET self == ASDTSConfigInit(classes[1], Len(dicts) + 1, Len(lists) + 1)
             path == self.firebase.credential_path
             present == ValidateConfig(self, fs \cup {path})
         IN  /\ warnings' = IF PathExists(fs, path) THEN warnings
                            ELSE Append(warnings, path)
             /\ present.err # <<>> =>
                  error' = present.err /\ config' = config /\ inst' = inst
             /\ present.err = <<>> =>
                  /\ error' = error \/ error' = <<>>
                  /\ IF pc = "classes_defined"
                     THEN config' = << self >> /\ pc' = "ready"
                     ELSE inst' = << self >> /\ config' = config
    ]_vars

\* C7 witness: the global config is bound although a warning about the
\* missing credential file was logged.
C7_Witness ==
    /\ config # <<>>
    /\ warnings # <<>>
    /\ warnings[1] = config[1].firebase.credential_path

\* C8: once the global config is bound, no step changes it, its four
\* groups, its collections dict or its sources list.
C8_NeverMutated ==
    [][config # <<>> =>
         /\ config' = config
         /\ dicts'[config[1].firebase.collections]
              = dicts[config[1].firebase.collections]
         /\ lists'[config[1].sentiment.sources]
              = lists[config[1].sentiment.sources]
    ]_vars

\* C9: a snapshot holds exactly project id and collections, exchange,
\* testnet and default symbol, sources and update interval.
C9_SnapshotKeys ==
    snapshot # <<>> =>
        /\ DOMAIN snapshot[1] = {"firebase", "trading", "sentiment"}
        /\ DOMAIN snapshot[1].firebase = {"project_id", "collections"}
        /\ DOMAIN snapshot[1].trading = {"exchange", "testnet", "default_symbol"}
        /\ DOMAIN snapshot[1].sentiment = {"sources", "update_interval"}

\* C9 witness: a snapshot was taken of a config whose stop-loss, take-profit
\* or threshold is not the default.
C9_Witness ==
    /\ snapshot # <<>>
    /\ \E v \in {"STOP_LOSS_PCT", "TAKE_PROFIT_PCT", "SENTIMENT_THRESHOLD"} :
            Field(config[1], v) # DocumentedDefault(v)

\* C10: the object a consumer's ASDTSConfig() call returns holds what the
\* class bodies give when evaluated with os.environ as it is at the call,
\* and passes the validation of those values.
C10_ReadsEnvAtCall ==
    inst # <<>> =>
        LET r == DefineAll(instEnv[1])
        IN  /\ r.ok
            /\ inst[1] = ASDTSConfigInit(r.classes,
                                         inst[1].firebase.collections,
                                         inst[1].sentiment.sources)
            /\ ValidateConfig(inst[1], fs).err = <<>>
=============================================================================
